---------------------------- MODULE Spec2Model ----------------------------
(***************************************************************************)
(* wernher.pid_control.Controller: a single-axis PID controller, its       *)
(* tuning-parameter properties (ti, td, ku, tu) and the Ziegler-Nichols    *)
(* gain table; and wernher.map_view.MapView.split_tracks, which cuts a     *)
(* ground track where its longitude wraps.                                 *)
(*                                                                         *)
(* Numbers.  Python floats are modelled as exact rationals <<n, d>> in     *)
(* lowest terms with d > 0.  Every operation of the source (+, -, *, /,    *)
(* numpy.isclose) is computed on these rationals; rounding of IEEE doubles *)
(* is not modelled, so an equality below is an equality "within floating   *)
(* tolerance" on the real program.                                         *)
(***************************************************************************)
EXTENDS Integers, Sequences, FiniteSets, TLC

VARIABLES self, last, prev, old, calls, times

vars == <<self, last, prev, old, calls, times>>

(***************************************************************************)
(* Bounds of the model.                                                    *)
(***************************************************************************)
MaxCalls == 2
\* longest track handed to split_tracks
MaxLen == 3

-----------------------------------------------------------------------------
(***************************************************************************)
(* Rational arithmetic.                                                    *)
(***************************************************************************)
Abs(n) == IF n < 0 THEN -n ELSE n

RECURSIVE GCD(_, _)
GCD(a, b) == IF b = 0 THEN a ELSE GCD(b, a % b)

Rat(n, d) ==
    LET g == GCD(Abs(n), Abs(d))
        s == IF d < 0 THEN -1 ELSE 1
    IN  <<(s * n) \div g, (s * d) \div g>>

R(n) == <<n, 1>>
Zero == R(0)

RAdd(a, b) == Rat(a[1] * b[2] + b[1] * a[2], a[2] * b[2])
RSub(a, b) == Rat(a[1] * b[2] - b[1] * a[2], a[2] * b[2])
RMul(a, b) == Rat(a[1] * b[1], a[2] * b[2])
\* only used with b # Zero: the callers model Python's ZeroDivisionError
RDiv(a, b) == Rat(a[1] * b[2], a[2] * b[1])

-----------------------------------------------------------------------------
(***************************************************************************)
(* Outcomes of a call: a returned value, a call that returns nothing       *)
(* (None), or a raised exception.                                          *)
(***************************************************************************)
Return(v) == [kind |-> "return", val |-> v]
None == [kind |-> "none"]
Raise(e) == [kind |-> "raise", exc |-> e]

\* an argument left out of a call
Omit == << >>

-----------------------------------------------------------------------------
(***************************************************************************)
(* Controller.__init__(set_point=0, kp=1, ki=0, kd=0, t0=0)                *)
(***************************************************************************)
DefaultSetPoint == Zero
DefaultKp == R(1)
DefaultKi == Zero
DefaultKd == Zero
DefaultT0 == Zero

Arg(a, default) == IF a = Omit THEN default ELSE a

\* (variant: the previous error starts at the set point)
Controller_P0(a) ==
    [set_point |-> Arg(a.set_point, DefaultSetPoint),
     kp        |-> Arg(a.kp, DefaultKp),
     ki        |-> Arg(a.ki, DefaultKi),
     kd        |-> Arg(a.kd, DefaultKd),
     t0        |-> Arg(a.t0, DefaultT0),
     I         |-> Zero,
     P0        |-> Arg(a.set_point, DefaultSetPoint),
     c         |-> Zero]

Controller(a) ==
    [set_point |-> Arg(a.set_point, DefaultSetPoint),
     kp        |-> Arg(a.kp, DefaultKp),
     ki        |-> Arg(a.ki, DefaultKi),
     kd        |-> Arg(a.kd, DefaultKd),
     t0        |-> Arg(a.t0, DefaultT0),
     I         |-> Zero,
     P0        |-> Zero,
     c         |-> Zero]

-----------------------------------------------------------------------------
(***************************************************************************)
(* Controller.__call__(x, t)                                               *)
(***************************************************************************)
\* numpy.isclose(a, 0) with numpy's defaults rtol = 1e-5, atol = 1e-8:
\* |a - 0| <= atol + rtol * |0|, i.e. |n| / d <= 1 / AtolInv.  With n an
\* integer this is |n| <= d \div AtolInv (which keeps the products small).
AtolInv == 100000000

isclose(a) == Abs(a[1]) <= a[2] \div AtolInv

\* all([kp, ki, kd]): every gain is truthy (nonzero)
all(kp, ki, kd) == kp # Zero /\ ki # Zero /\ kd # Zero

\* (variant: the early return also records the time of the call)
NoTimePassed_stamps(s, x, t) ==
    [self |-> [s EXCEPT !.t0 = t], ret |-> Return(s.c), writes |-> {"t0"}]

\* line 29: return self.c
NoTimePassed(s, x, t) == [self |-> s, ret |-> Return(s.c), writes |-> {}]

\* (variant: the pass-through also stores its response in self.c)
PassThrough_stores(s, x, t) ==
    [self |-> [s EXCEPT !.t0 = t, !.c = s.set_point], ret |-> Return(s.set_point),
     writes |-> {"t0", "c"}]

\* (variant: the pass-through does not record the time of the call)
PassThrough_keeps(s, x, t) ==
    [self |-> s, ret |-> Return(s.set_point), writes |-> {}]

\* (variant: the pass-through clears the running integral)
PassThrough_clears(s, x, t) ==
    [self |-> [s EXCEPT !.t0 = t, !.I = Zero], ret |-> Return(s.set_point),
     writes |-> {"t0", "I"}]

\* lines 39-40: self.t0 = t; return xset
PassThrough(s, x, t) ==
    [self |-> [s EXCEPT !.t0 = t], ret |-> Return(s.set_point), writes |-> {"t0"}]

\* (variant: the integral is overwritten instead of accumulated)
Pid_overwrites(s, x, t) ==
    LET dt == RSub(t, s.t0)
        P  == RSub(s.set_point, x)
        I  == RMul(P, dt)
        D  == RDiv(RSub(P, s.P0), dt)
        c  == RAdd(RAdd(RMul(s.kp, P), RMul(s.ki, I)), RMul(s.kd, D))
    IN  \* (P - P0) / dt raises on a zero dt, before any attribute is assigned
        IF dt = Zero
        THEN [self |-> s, ret |-> Raise("ZeroDivisionError"), writes |-> {}]
        ELSE [self |-> [s EXCEPT !.t0 = t, !.I = I, !.P0 = P, !.c = c],
              ret  |-> Return(c), writes |-> {"t0", "I", "P0", "c"}]

\* lines 43-61
Pid(s, x, t) ==
    LET dt == RSub(t, s.t0)
        P  == RSub(s.set_point, x)
        I  == RAdd(s.I, RMul(P, dt))
        D  == RDiv(RSub(P, s.P0), dt)
        c  == RAdd(RAdd(RMul(s.kp, P), RMul(s.ki, I)), RMul(s.kd, D))
    IN  \* (P - P0) / dt raises on a zero dt, before any attribute is assigned
        IF dt = Zero
        THEN [self |-> s, ret |-> Raise("ZeroDivisionError"), writes |-> {}]
        ELSE [self |-> [s EXCEPT !.t0 = t, !.I = I, !.P0 = P, !.c = c],
              ret  |-> Return(c), writes |-> {"t0", "I", "P0", "c"}]

\* (variant: a time before the previous call's is refused)
call_rejects(s, x, t) ==
    IF isclose(RSub(t, s.t0)) THEN NoTimePassed(s, x, t)
    ELSE IF RSub(t, s.t0)[1] < 0
         THEN [self |-> s, ret |-> Raise("ValueError"), writes |-> {}]
    ELSE IF ~all(s.kp, s.ki, s.kd) THEN PassThrough(s, x, t)
    ELSE Pid(s, x, t)

call(s, x, t) ==
    IF isclose(RSub(t, s.t0)) THEN NoTimePassed(s, x, t)
    ELSE IF ~all(s.kp, s.ki, s.kd) THEN PassThrough(s, x, t)
    ELSE Pid(s, x, t)

-----------------------------------------------------------------------------
(***************************************************************************)
(* The tuning-parameter properties.  A getter yields an outcome; a setter  *)
(* yields the controller after the assignment and an outcome.  Python's    *)
(* true division raises ZeroDivisionError on a zero divisor.               *)
(***************************************************************************)
ZeroDivisionError == "ZeroDivisionError"

\* return self.kp / self.ki
ti_get(s) ==
    IF s.ki = Zero THEN Raise(ZeroDivisionError) ELSE Return(RDiv(s.kp, s.ki))

\* self.ki = self.kp / ti
ti_set(s, ti) ==
    IF ti = Zero THEN [self |-> s, ret |-> Raise(ZeroDivisionError)]
    ELSE [self |-> [s EXCEPT !.ki = RDiv(s.kp, ti)], ret |-> None]

\* (variant: a zero kp silently reads as a derivative time of 0)
td_get_silent(s) ==
    IF s.kp = Zero THEN Return(Zero) ELSE Return(RDiv(s.kd, s.kp))

\* return self.kd / self.kp
td_get(s) ==
    IF s.kp = Zero THEN Raise(ZeroDivisionError) ELSE Return(RDiv(s.kd, s.kp))

\* self.kd = self.kp * td
td_set(s, td) == [self |-> [s EXCEPT !.kd = RMul(s.kp, td)], ret |-> None]

\* return (1/.6)*self.kp
ku_get(s) == Return(RMul(RDiv(R(1), Rat(6, 10)), s.kp))

\* (variant: ki is rescaled with kp, keeping the integral time)
ku_set_rescales(s, ku) ==
    [self |-> [s EXCEPT !.kp = RMul(Rat(6, 10), ku),
                        !.ki = RMul(s.ki, RMul(Rat(6, 10), ku))],
     ret  |-> None]

\* self.kp = .6*ku
ku_set(s, ku) == [self |-> [s EXCEPT !.kp = RMul(Rat(6, 10), ku)], ret |-> None]

\* (variant: the factor 2 is left out, as in ti)
tu_get_as_ti(s) ==
    IF s.ki = Zero THEN Raise(ZeroDivisionError) ELSE Return(RDiv(s.kp, s.ki))

\* return 2*self.kp/self.ki
tu_get(s) ==
    IF s.ki = Zero THEN Raise(ZeroDivisionError)
    ELSE Return(RDiv(RMul(R(2), s.kp), s.ki))

\* (variant: kd = kp*tu/3, the divisor of the overshoot schemes)
tu_set_third(s, tu) ==
    IF tu = Zero THEN [self |-> s, ret |-> Raise(ZeroDivisionError)]
    ELSE [self |-> [s EXCEPT !.ki = RDiv(RMul(R(2), s.kp), tu),
                             !.kd = RDiv(RMul(s.kp, tu), R(3))],
          ret  |-> None]

\* self.ki = 2*self.kp/tu ; self.kd = self.kp*tu/8
tu_set(s, tu) ==
    IF tu = Zero THEN [self |-> s, ret |-> Raise(ZeroDivisionError)]
    ELSE [self |-> [s EXCEPT !.ki = RDiv(RMul(R(2), s.kp), tu),
                             !.kd = RDiv(RMul(s.kp, tu), R(8))],
          ret  |-> None]

-----------------------------------------------------------------------------
(***************************************************************************)
(* Controller.ziegler_nichols(ku, tu, control_type='pid').  A scheme name  *)
(* is a sequence of one-character strings.                                 *)
(***************************************************************************)
UpperCase == <<"A","B","C","D","E","F","G","H","I","J","K","L","M",
               "N","O","P","Q","R","S","T","U","V","W","X","Y","Z">>
LowerCase == <<"a","b","c","d","e","f","g","h","i","j","k","l","m",
               "n","o","p","q","r","s","t","u","v","w","x","y","z">>

\* str.lower(), character by character
lower(str) ==
    [k \in DOMAIN str |->
        IF \E j \in DOMAIN UpperCase : UpperCase[j] = str[k]
        THEN LowerCase[CHOOSE j \in DOMAIN UpperCase : UpperCase[j] = str[k]]
        ELSE str[k]]

p_ == <<"p">>
pi_ == <<"p","i">>
pd_ == <<"p","d">>
pid_ == <<"p","i","d">>
pessen_ == <<"p","e","s","s","e","n">>
some_overshoot_ == <<"s","o","m","e","_","o","v","e","r","s","h","o","o","t">>
no_overshoot_ == <<"n","o","_","o","v","e","r","s","h","o","o","t">>

\* the keys of the dict `converter`
converter_keys == {p_, pi_, pd_, pid_, pessen_, some_overshoot_, no_overshoot_}

\* converter[key](ku, tu), for key in converter_keys
converter(key, ku, tu) ==
    LET kp(m) == RMul(m, ku) IN
    CASE key = p_   -> <<kp(Rat(5, 10)), Zero, Zero>>
      [] key = pi_  -> <<kp(Rat(45, 100)),
                         RDiv(RMul(Rat(12, 10), kp(Rat(45, 100))), tu), Zero>>
      [] key = pd_  -> <<kp(Rat(8, 10)), Zero,
                         RDiv(RMul(kp(Rat(8, 10)), tu), R(8))>>
      [] key = pid_ -> <<kp(Rat(6, 10)),
                         RDiv(RMul(R(2), kp(Rat(6, 10))), tu),
                         RDiv(RMul(kp(Rat(6, 10)), tu), R(8))>>
      [] key = pessen_ -> <<kp(Rat(7, 10)),
                            RDiv(RMul(Rat(25, 10), kp(Rat(7, 10))), tu),
                            RDiv(RMul(RMul(R(3), kp(Rat(7, 10))), tu), R(20))>>
      [] key = some_overshoot_ -> <<kp(Rat(33, 100)),
                                    RDiv(RMul(R(2), kp(Rat(33, 100))), tu),
                                    RDiv(RMul(kp(Rat(33, 100)), tu), R(3))>>
      [] key = no_overshoot_ -> <<kp(Rat(2, 10)),
                                  RDiv(RMul(R(2), kp(Rat(2, 10))), tu),
                                  RDiv(RMul(kp(Rat(2, 10)), tu), R(3))>>

\* line 110: self.kp,self.ki,self.kd = converter[control_type.lower()](ku,tu)
\* The right-hand side is evaluated first: an unknown key raises KeyError,
\* a known one yields the gains (rhs).  The function has no parameter
\* `self` and the module has no global of that name, so the assignment to
\* self.kp then raises NameError: the gains are stored nowhere and nothing
\* is returned.
ziegler_nichols(ku, tu, control_type) ==
    LET key == lower(control_type) IN
    IF key \notin converter_keys
    THEN [rhs |-> << >>, ret |-> Raise("KeyError")]
    ELSE [rhs |-> converter(key, ku, tu), ret |-> Raise("NameError")]

-----------------------------------------------------------------------------
(***************************************************************************)
(* MapView.split_tracks(lat, lon, *args).  lat, lon and each element of    *)
(* args are sequences (Python index i is index i + 1 here); longitudes are *)
(* whole degrees.  A track is the sequence <<lat, lon, extra...>>, as the  *)
(* Python list [np.array(lt), np.array(ln)] + [np.array(z) for z in zz].   *)
(***************************************************************************)
Track(lt, ln, zz) == <<lt, ln>> \o zz

\* the state before the loop (lines 58-60)
split_start(lat, lon, args) ==
    [tracks |-> << >>,
     lt     |-> <<lat[1]>>,
     ln     |-> <<lon[1]>>,
     zz     |-> [j \in DOMAIN args |-> <<args[j][1]>>]]

\* one pass of the loop body (lines 62-83) at index k
split_body(st, lat, lon, args, k) ==
    LET lt == Append(st.lt, lat[k])
        zz == [j \in DOMAIN args |-> Append(st.zz[j], args[j][k])]
        d1 == Abs(lon[k] - lon[k - 1])
        d2 == Abs((lon[k - 1] + 360) - lon[k])
        d3 == Abs(lon[k - 1] - (lon[k] + 360))
    IN  IF d2 < d1
        THEN [tracks |-> Append(st.tracks, Track(lt, Append(st.ln, lon[k] - 360), zz)),
              lt     |-> <<lat[k - 1], lat[k]>>,
              ln     |-> <<lon[k - 1] + 360, lon[k]>>,
              zz     |-> [j \in DOMAIN args |-> <<args[j][k - 1]>>]]
        ELSE IF d3 < d1
        THEN [tracks |-> Append(st.tracks, Track(lt, Append(st.ln, lon[k] + 360), zz)),
              lt     |-> <<lat[k - 1], lat[k]>>,
              ln     |-> <<lon[k - 1] - 360, lon[k]>>,
              zz     |-> [j \in DOMAIN args |-> <<args[j][k - 1], args[j][k]>>]]
        ELSE [tracks |-> st.tracks,
              lt     |-> lt,
              ln     |-> Append(st.ln, lon[k]),
              zz     |-> zz]

\* for i in range(1, len(lon)): the passes from index k on
RECURSIVE split_loop(_, _, _, _, _)
split_loop(st, lat, lon, args, k) ==
    IF k > Len(lon) THEN st
    ELSE split_loop(split_body(st, lat, lon, args, k), lat, lon, args, k + 1)

split_tracks(lat, lon, args) ==
    LET st == split_loop(split_start(lat, lon, args), lat, lon, args, 2) IN
    IF Len(st.lt) # 0
    THEN Append(st.tracks, Track(st.lt, st.ln, st.zz))
    ELSE st.tracks

-----------------------------------------------------------------------------
(***************************************************************************)
(* The inputs the model draws from.                                        *)
(***************************************************************************)
SetPoints == {Omit, R(100)}
KpArgs == {Omit, Zero, R(2)}
KiArgs == {Omit, <<1, 2>>}
KdArgs == {Omit, <<1, 10>>}
T0Args == {Omit, R(1)}

Measurements == {R(90), R(95), R(110)}

\* a time step well inside isclose's tolerance: 5e-9
Tiny == <<1, 200000000>>
CoarseTimes == {R(0), R(1), R(2)}
Times(s) == CoarseTimes \cup {RAdd(s.t0, Tiny), RSub(s.t0, Tiny)}

\* values written to ti, td, ku, tu
ViewValues == {Zero, R(2), Rat(1, 4)}

\* arguments of ziegler_nichols
Kus == {R(10)}
Tus == {R(2), R(4)}
SchemeNames ==
    converter_keys \cup
    {<<"P">>, <<"P","I">>, <<"p","D">>, <<"P","I","D">>, <<"P","i","d">>,
     <<"P","e","s","s","e","n">>,
     <<"N","O","_","O","V","E","R","S","H","O","O","T">>,
     << >>, <<"p","d","i">>, <<"p","i","d"," ">>, <<"c","l","a","s","s","i","c">>,
     <<"n","o","-","o","v","e","r","s","h","o","o","t">>}

\* tracks: longitudes either side of the antimeridian, latitudes and extra
\* per-point values that name their index; plot_track passes no extra array
\* or one
Lons == {-179, 0, 179}
Lat(n) == [k \in 1..n |-> 10 * k]
Extra(n) == [k \in 1..n |-> 100 + k]
ExtraArgs(n) == {<< >>, <<Extra(n)>>}

-----------------------------------------------------------------------------
Init ==
    \E sp \in SetPoints, p \in KpArgs, i \in KiArgs, d \in KdArgs, t \in T0Args :
        LET a == [set_point |-> sp, kp |-> p, ki |-> i, kd |-> d, t0 |-> t] IN
        /\ self = Controller(a)
        /\ last = [op |-> "__init__", args |-> a, ret |-> None]
        /\ prev = last
        /\ old = self
        /\ calls = 0
        /\ times = <<self.t0>>

\* one call on the controller: r is the call's result, l its record
Step(r, l) ==
    /\ calls < MaxCalls
    /\ calls' = calls + 1
    /\ old' = self
    /\ prev' = last
    /\ self' = r.self
    /\ last' = l
    /\ times' = IF l.op = "__call__" THEN Append(times, l.t) ELSE times

Update ==
    \E x \in Measurements, t \in Times(self) :
        LET r == call(self, x, t) IN
        Step(r, [op |-> "__call__", x |-> x, t |-> t, ret |-> r.ret,
                 writes |-> r.writes])

GetTi ==
    Step([self |-> self, ret |-> ti_get(self)],
         [op |-> "ti", ret |-> ti_get(self)])

SetTi ==
    \E v \in ViewValues :
        LET r == ti_set(self, v) IN
        Step(r, [op |-> "ti.setter", v |-> v, ret |-> r.ret])

GetTd ==
    Step([self |-> self, ret |-> td_get(self)],
         [op |-> "td", ret |-> td_get(self)])

SetTd ==
    \E v \in ViewValues :
        LET r == td_set(self, v) IN
        Step(r, [op |-> "td.setter", v |-> v, ret |-> r.ret])

GetKu ==
    Step([self |-> self, ret |-> ku_get(self)],
         [op |-> "ku", ret |-> ku_get(self)])

SetKu ==
    \E v \in ViewValues :
        LET r == ku_set(self, v) IN
        Step(r, [op |-> "ku.setter", v |-> v, ret |-> r.ret])

GetTu ==
    Step([self |-> self, ret |-> tu_get(self)],
         [op |-> "tu", ret |-> tu_get(self)])

SetTu ==
    \E v \in ViewValues :
        LET r == tu_set(self, v) IN
        Step(r, [op |-> "tu.setter", v |-> v, ret |-> r.ret])

ZieglerNichols ==
    \E ku \in Kus, tu \in Tus, name \in SchemeNames :
        LET r == ziegler_nichols(ku, tu, name) IN
        Step([self |-> self, ret |-> r.ret],
             [op |-> "ziegler_nichols", ku |-> ku, tu |-> tu,
              control_type |-> name, rhs |-> r.rhs, ret |-> r.ret])

Next ==
    \/ Update
    \/ GetTi \/ SetTi
    \/ GetTd \/ SetTd
    \/ GetKu \/ SetKu
    \/ GetTu \/ SetTu

Spec == Init /\ [][Next]_vars

SplitTracks ==
    \E n \in 1..MaxLen :
        \E lon \in [1..n -> Lons], args \in ExtraArgs(n) :
            Step([self |-> self],
                 [op |-> "split_tracks", lat |-> Lat(n), lon |-> lon,
                  args |-> args, ret |-> Return(split_tracks(Lat(n), lon, args))])

\* split_tracks on its own, beside one controller built with the defaults
InitTracks ==
    /\ Init
    /\ last.args = [set_point |-> Omit, kp |-> Omit, ki |-> Omit, kd |-> Omit,
                    t0 |-> Omit]

NextTracks == SplitTracks

SpecTracks == InitTracks /\ [][NextTracks]_vars

\* the gain table on its own
NextZN == ZieglerNichols

SpecZN == Init /\ [][NextZN]_vars

-----------------------------------------------------------------------------
(***************************************************************************)
(* Properties.  `last` is the most recent call with its arguments and      *)
(* outcome, `prev` the call before it, `old` the controller as it was when *)
(* `last` was made and `self` the controller after it.  `times` are the    *)
(* time values supplied so far: t0 at construction, then the t of each     *)
(* update; `last.writes` are the attributes an update assigned.            *)
(***************************************************************************)
IsUpdate(l) == l.op = "__call__"

\* t is t_prev, or differs from it by a step inside the no-op tolerance
SameTime(t, tprev) ==
    \/ t = tprev
    \/ t = RAdd(tprev, Tiny)
    \/ t = RSub(tprev, Tiny)

\* a - b as a rational, and its comparison with the tolerance 1e-8
\* (n/d > 1/AtolInv  iff  n > d \div AtolInv, for an integer n and d > 0)
MoreThanToleranceAfter(t, tprev) ==
    LET dt == RSub(t, tprev) IN dt[1] > dt[2] \div AtolInv

MoreThanToleranceApart(t, tprev) ==
    LET dt == RSub(t, tprev) IN Abs(dt[1]) > dt[2] \div AtolInv

StrictlyAfter(t, tprev) == RSub(t, tprev)[1] > 0

AllGainsZero(s) == s.kp = Zero /\ s.ki = Zero /\ s.kd = Zero
AllGainsNonzero(s) == s.kp # Zero /\ s.ki # Zero /\ s.kd # Zero

\* C1: an update whose t equals t_prev within the no-op tolerance returns
\* the stored last output (self.c) and leaves every field of the controller
\* as it was, whatever the measurement and the gains.
C1_NoElapsedTimeIsNoOp ==
    (IsUpdate(last) /\ SameTime(last.t, old.t0))
        => (last.ret = Return(old.c) /\ self = old)

\* C1 witness: such a call arrives (a step of 5e-9) at a tuned controller
\* that already holds a nonzero last output.
C1_Witness ==
    /\ IsUpdate(last)
    /\ last.t = RAdd(old.t0, Tiny)
    /\ AllGainsNonzero(old)
    /\ old.c # Zero
    /\ last.ret = Return(old.c)

\* C2 as stated: with all gains zero, every update whose t is strictly
\* greater than the previous t returns set_point, sets t_prev = t and leaves
\* integral_accum, error_prev and last_output alone.
C2_Original ==
    (IsUpdate(last) /\ AllGainsZero(old) /\ StrictlyAfter(last.t, old.t0))
        => /\ last.ret = Return(old.set_point)
           /\ self = [old EXCEPT !.t0 = last.t]

\* C2 amended: with all gains zero, every update whose t exceeds t_prev by
\* more than the no-op tolerance (1e-8) returns set_point, sets t_prev = t
\* and leaves integral_accum, error_prev and last_output alone.
C2_ZeroGainsPassThrough ==
    (IsUpdate(last) /\ AllGainsZero(old) /\ MoreThanToleranceAfter(last.t, old.t0))
        => /\ last.ret = Return(old.set_point)
           /\ self = [old EXCEPT !.t0 = last.t]

\* C2 witness: the second of two such updates in a row, with a set point
\* other than the stored last output.
C2_Witness ==
    /\ IsUpdate(last) /\ IsUpdate(prev)
    /\ AllGainsZero(old)
    /\ MoreThanToleranceAfter(last.t, old.t0)
    /\ prev.t = old.t0
    /\ old.set_point # old.c
    /\ last.ret = Return(old.set_point)

\* C3 as stated: a pure-P controller (kp nonzero, ki = kd = 0) answers every
\* update with elapsed time by kp * (set_point - measurement); the
\* pass-through answer is for all three gains zero together.
C3_PureP ==
    (/\ IsUpdate(last)
     /\ old.kp # Zero /\ old.ki = Zero /\ old.kd = Zero
     /\ MoreThanToleranceApart(last.t, old.t0))
        => last.ret = Return(RMul(old.kp, RSub(old.set_point, last.x)))

\* the normal path as the claim C4 writes it: from controller s, the call
\* (x, t) leaves controller s2 and returns ret
C4_Step(s, x, t, s2, ret) ==
    LET dt         == RSub(t, s.t0)
        error      == RSub(s.set_point, x)
        integral   == RAdd(s.I, RMul(error, dt))
        derivative == RDiv(RSub(error, s.P0), dt)
        output     == RAdd(RAdd(RMul(s.kp, error), RMul(s.ki, integral)),
                           RMul(s.kd, derivative))
    IN  /\ s2.t0 = t
        /\ s2.P0 = error
        /\ s2.I = integral
        /\ s2.c = output
        /\ ret = Return(output)
        /\ s2.set_point = s.set_point
        /\ s2.kp = s.kp /\ s2.ki = s.ki /\ s2.kd = s.kd

\* the controller (set_point=100, kp=2, ki=0.5, kd=0.1, t0=0), fresh and
\* after update(90, 1)
C4_Fresh ==
    [set_point |-> R(100), kp |-> R(2), ki |-> Rat(1, 2), kd |-> Rat(1, 10),
     t0 |-> R(0), I |-> R(0), P0 |-> R(0), c |-> R(0)]
C4_AfterFirst ==
    [C4_Fresh EXCEPT !.t0 = R(1), !.I = R(10), !.P0 = R(10), !.c = R(26)]

C4_Example ==
    /\ (IsUpdate(last) /\ old = C4_Fresh /\ last.x = R(90) /\ last.t = R(1))
         => (last.ret = Return(R(26)) /\ self = C4_AfterFirst)
    /\ (IsUpdate(last) /\ old = C4_AfterFirst /\ last.x = R(95) /\ last.t = R(2))
         => (last.ret = Return(R(17)) /\ self.I = R(15))

\* C4 as stated: with all three gains nonzero, every update with t different
\* from t_prev takes the normal path (and the worked example gives 26, 17).
C4_Original ==
    /\ (IsUpdate(last) /\ AllGainsNonzero(old) /\ last.t # old.t0)
         => C4_Step(old, last.x, last.t, self, last.ret)
    /\ C4_Example

\* C4 amended: with all three gains nonzero, every update with t differing
\* from t_prev by more than the no-op tolerance computes dt, error, the
\* accumulated integral and the derivative, returns
\* kp*error + ki*integral_accum' + kd*derivative and commits t_prev, the
\* integral, error_prev and last_output; the worked example gives 26 then 17
\* with integral_accum 10 then 15.
C4_NormalPath ==
    /\ (IsUpdate(last) /\ AllGainsNonzero(old)
        /\ MoreThanToleranceApart(last.t, old.t0))
         => C4_Step(old, last.x, last.t, self, last.ret)
    /\ C4_Example

\* C4 witness: the second call of the worked example has returned 17.
C4_Witness ==
    /\ IsUpdate(last) /\ IsUpdate(prev)
    /\ old = C4_AfterFirst
    /\ last.x = R(95) /\ last.t = R(2)
    /\ last.ret = Return(R(17))
    /\ self.I = R(15)

\* C5 as stated: an update whose t equals the t of the update just before it
\* returns what that update returned.
C5_RepeatReturnsPrevious ==
    (IsUpdate(last) /\ IsUpdate(prev) /\ last.t = prev.t)
        => last.ret = prev.ret

IsZN(l) == l.op = "ziegler_nichols"

\* C6 as stated: ziegler_nichols(ku, tu, scheme) completes and returns the
\* scheme's gain triple for each of the seven schemes, and changes no
\* controller.
C6_ReturnsGainTriple ==
    (IsZN(last) /\ last.control_type \in converter_keys)
        => /\ last.ret = Return(converter(last.control_type, last.ku, last.tu))
           /\ self = old

\* C7 as stated: a scheme name whose lower-cased form is not one of the seven
\* fails with an error; a name that differs from a valid one only in letter
\* case is accepted as that scheme.
C7_UnknownFailsCaseIgnored ==
    /\ (IsZN(last) /\ lower(last.control_type) \notin converter_keys)
         => last.ret.kind = "raise"
    /\ (IsZN(last) /\ lower(last.control_type) \in converter_keys
        /\ last.control_type \notin converter_keys)
         => last.ret = Return(converter(lower(last.control_type), last.ku, last.tu))

\* C8: with kp nonzero, writing a nonzero v to ti and then reading ti gives
\* v back; likewise for td, for ku and for tu.
C8_RoundTrip ==
    /\ (prev.op = "ti.setter" /\ last.op = "ti" /\ prev.v # Zero /\ self.kp # Zero)
         => last.ret = Return(prev.v)
    /\ (prev.op = "td.setter" /\ last.op = "td" /\ prev.v # Zero /\ self.kp # Zero)
         => last.ret = Return(prev.v)
    /\ (prev.op = "ku.setter" /\ last.op = "ku" /\ prev.v # Zero /\ self.kp # Zero)
         => last.ret = Return(prev.v)
    /\ (prev.op = "tu.setter" /\ last.op = "tu" /\ prev.v # Zero /\ self.kp # Zero)
         => last.ret = Return(prev.v)

\* C8 witness: tu was written with 1/4 on a controller with nonzero kp and
\* then read.
C8_Witness ==
    /\ prev.op = "tu.setter" /\ prev.v = Rat(1, 4)
    /\ last.op = "tu"
    /\ self.kp # Zero
    /\ last.ret.kind = "return"

\* C9: reading td with kp zero, or ti or tu with ki zero, raises a division
\* by zero instead of returning a value, and changes no field.
C9_ZeroDivisorRaises ==
    /\ (last.op = "td" /\ old.kp = Zero)
         => (last.ret = Raise("ZeroDivisionError") /\ self = old)
    /\ (last.op \in {"ti", "tu"} /\ old.ki = Zero)
         => (last.ret = Raise("ZeroDivisionError") /\ self = old)

\* C9 witness: td is read on a controller whose kp is zero and kd is not.
C9_Witness ==
    /\ last.op = "td"
    /\ old.kp = Zero /\ old.kd # Zero
    /\ last.ret.kind = "raise"

GainsAndT0Omitted(l) ==
    /\ l.op = "__init__"
    /\ l.args.kp = Omit /\ l.args.ki = Omit /\ l.args.kd = Omit
    /\ l.args.t0 = Omit

IsViewRead(l) == l.op \in {"ti", "td", "ku", "tu"}

\* C11: writing ti changes only ki, writing td only kd, writing ku only kp,
\* writing tu only ki and kd; reading a view changes nothing; so no view
\* read or write changes set_point, t0, I, P0 or c.
C11_ViewFrame ==
    /\ last.op = "ti.setter" => self = [old EXCEPT !.ki = self.ki]
    /\ last.op = "td.setter" => self = [old EXCEPT !.kd = self.kd]
    /\ last.op = "ku.setter" => self = [old EXCEPT !.kp = self.kp]
    /\ last.op = "tu.setter" => self = [old EXCEPT !.ki = self.ki, !.kd = self.kd]
    /\ IsViewRead(last) => self = old

\* C11 witness: ku is written on a controller that has run its normal path
\* (nonzero integral and last output), and kp changes.
C11_Witness ==
    /\ last.op = "ku.setter"
    /\ self.kp # old.kp
    /\ old.I # Zero /\ old.c # Zero /\ old.ki # Zero
    /\ self.I = old.I /\ self.c = old.c

\* C15: with kp nonzero, after writing a nonzero v to tu, reading ti gives
\* v/2 and reading td gives v/8, and the write leaves kp (hence ku) as it
\* was.
C15_TuDeterminesTiTd ==
    /\ (prev.op = "tu.setter" /\ prev.v # Zero /\ self.kp # Zero /\ last.op = "ti")
         => last.ret = Return(RDiv(prev.v, R(2)))
    /\ (prev.op = "tu.setter" /\ prev.v # Zero /\ self.kp # Zero /\ last.op = "td")
         => last.ret = Return(RDiv(prev.v, R(8)))
    /\ (last.op = "tu.setter" /\ last.v # Zero /\ old.kp # Zero)
         => (self.kp = old.kp /\ ku_get(self) = ku_get(old))

\* C15 witness: tu was written with 1/4 on a controller with nonzero kp and
\* td then read as 1/32.
C15_Witness ==
    /\ prev.op = "tu.setter" /\ prev.v = Rat(1, 4)
    /\ self.kp # Zero
    /\ last.op = "td"
    /\ last.ret = Return(Rat(1, 32))

\* a <= b for rationals in lowest terms (equal denominators are compared by
\* their numerators, which keeps the products small)
Leq(a, b) ==
    IF a[2] = b[2] THEN a[1] <= b[1] ELSE a[1] * b[2] <= b[1] * a[2]

\* C12: integral_accum (I) and error_prev (P0) are committed together: an
\* update on the normal path assigns both, with t0 and c; an update on the
\* no-elapsed-time or pass-through path assigns neither and leaves both
\* values as they were; no update assigns one without the other.
C12_CommittedTogether ==
    IsUpdate(last) =>
        /\ ("I" \in last.writes) <=> ("P0" \in last.writes)
        /\ (AllGainsNonzero(old) /\ MoreThanToleranceApart(last.t, old.t0))
             => last.writes = {"t0", "I", "P0", "c"}
        /\ (~AllGainsNonzero(old) \/ SameTime(last.t, old.t0))
             => (/\ "I" \notin last.writes /\ "P0" \notin last.writes
                 /\ self.I = old.I /\ self.P0 = old.P0)

\* C12 witness: an update within the tolerance of t_prev arrives after a
\* normal update that left a nonzero integral and previous error; it assigns
\* neither.
C12_Witness ==
    /\ IsUpdate(last) /\ IsUpdate(prev)
    /\ prev.writes = {"t0", "I", "P0", "c"}
    /\ last.writes = {}
    /\ old.I # Zero /\ old.P0 # Zero
    /\ self.I = old.I /\ self.P0 = old.P0

NonDecreasing(ts) == \A k \in 1..(Len(ts) - 1) : Leq(ts[k], ts[k + 1])

BeforeByMoreThanTolerance(t, tprev) == MoreThanToleranceAfter(tprev, t)

\* C14: update never raises: every call returns a value; a call whose t is
\* smaller than t_prev by more than the tolerance is not refused or clamped
\* but processed with a negative dt (pass-through or the normal path), and
\* t_prev moves back to t.
C14_NeverRaises ==
    IsUpdate(last) =>
        /\ last.ret.kind = "return"
        /\ BeforeByMoreThanTolerance(last.t, old.t0) =>
             /\ self.t0 = last.t
             /\ AllGainsNonzero(old) => C4_Step(old, last.x, last.t, self, last.ret)
             /\ ~AllGainsNonzero(old) => last.ret = Return(old.set_point)

\* C14 witness: a tuned controller at t_prev = 2 is updated with t = 0 and
\* commits t_prev = 0.
C14_Witness ==
    /\ IsUpdate(last)
    /\ AllGainsNonzero(old)
    /\ old.t0 = R(2) /\ last.t = R(0)
    /\ self.t0 = R(0)
    /\ last.ret.kind = "return"
    /\ self.I # old.I

IsSplit(l) == l.op = "split_tracks"

\* the places where the longitude wraps: consecutive points more than half
\* a turn apart
Wraps(lon) == {k \in 2..Len(lon) : Abs(lon[k] - lon[k - 1]) > 180}

SameLengths(track) == \A a, b \in DOMAIN track : Len(track[a]) = Len(track[b])

\* C16 as stated: for non-empty lat and lon of equal length and any extra
\* per-point arrays, whichever way the longitude wraps, every track returned
\* by split_tracks holds arrays of one length (lat, lon and each extra
\* array), and there is one track more than there are wraps.
C16_TracksWellFormed ==
    IsSplit(last) =>
        LET tracks == last.ret.val IN
        /\ Len(tracks) = Cardinality(Wraps(last.lon)) + 1
        /\ \A i \in DOMAIN tracks : SameLengths(tracks[i])

=============================================================================
